---- MODULE Spec2Model ----
(***************************************************************************)
(* A model of the radioactive Monte Carlo simulation                       *)
(* (src/unnamed/part_001, compiled as src/src/simpleradioactive.js).       *)
(*                                                                         *)
(* Numbers.  A JavaScript number is modelled in fixed point, in units of   *)
(* 1/Scale.  Math.random() is a seeded pseudo-random generator: it is      *)
(* modelled as a cyclic tape of outcomes that Init chooses.  The outcomes  *)
(* are 0, 1/4, 1/2, 3/4 and the largest double below 1 (1 - 2^-53), which  *)
(* at the model's resolution reads 1.000.  Math.sin and Math.cos are the   *)
(* tables of their IEEE-754 values at the five angles x * Math.PI, rounded *)
(* to 1/Scale; in particular Math.cos((1 - 2^-53) * Math.PI) is exactly -1 *)
(* in double precision, and Math.sin of it is 5.7e-16.                     *)
(***************************************************************************)
EXTENDS Integers, Sequences, FiniteSets, TLC

VARIABLES
    rng,                \* Math.random(): [tape, pos]
    significantFigures, \* argument of createRadiusStream (line 115/135)
    sampleSize,         \* paths per radius (line 111)
    radiusI,            \* createRadiusStream: the loop variable i
    radiusDone,         \* createRadiusStream: the generator has returned
    radii,              \* history: the radii radiusStream has yielded
    thetaCursor,        \* thetaStram: number of angles it has emitted
    drawn,              \* history: the (theta, u) pairs drawn for the current path
    stepCount,          \* createDistanceStream: its steps argument
    thetaArray,         \* createDistanceStream: angles taken for the current path
    pathPc,             \* createDistanceStream: "idle" | "take" | "yielded"
    consumedUpTo,       \* history: highest stream position used by a finished path
    pathCount,          \* history: number of distances createDistanceStream has yielded
    radius,             \* the callback's argument: the radius being simulated
    distances,          \* the callback's batch of path distances
    mapPc,              \* results (map generator): "suspended" | "f" | "done"
    requested,          \* number of results.next() calls made by the consumer
    results,            \* the SimulationResults the consumer has received
    pc,                 \* writeResults: "spread" | "await" | "done" | "rejected"
    writeFileCalls,     \* number of writeFile invocations
    written,            \* data.results handed to writeFile
    errorLog            \* number of console.error calls

vars == <<rng, significantFigures, sampleSize, radiusI, radiusDone, radii,
          thetaCursor, drawn, stepCount, thetaArray, pathPc, consumedUpTo,
          pathCount, radius, distances, mapPc, requested, results, pc,
          writeFileCalls, written, errorLog>>

(***************************************************************************)
(* Bounds of the model.                                                    *)
(***************************************************************************)
\* Longest period of the Math.random() tape.
TapeLen == 3
\* Paths per radius (the program's sampleSize is 10000000).
SampleSize == 2
\* Largest significantFigures of a whole sweep (the program's is 3).
MaxSigFigs == 1
\* Largest significantFigures createRadiusStream is iterated with on its own.
MaxRadiusSigFigs == 3
\* Most (theta, u) pairs drawn for one path before the model stops drawing.
MaxDraws == 15

(***************************************************************************)
(* Program constants.                                                      *)
(***************************************************************************)
steps == 5
\* The literal step count passed to createDistanceStream by the callback.
pathSteps == 5

(***************************************************************************)
(* Numbers and Math.                                                       *)
(***************************************************************************)
Scale == 1000

MathPI == 3142

\* The outcomes of Math.random(), in [0, 1): 0, 1/4, 1/2, 3/4, 1 - 2^-53.
RandomValues == {0, 250, 500, 750, 1000}

MathSin(t) ==
    CASE t = 0 -> 0
      [] t = 785 -> 707
      [] t = 1571 -> 1000
      [] t = 2356 -> 707
      [] t = 3142 -> 0

MathCos(t) ==
    CASE t = 0 -> 1000
      [] t = 785 -> 707
      [] t = 1571 -> 0
      [] t = 2356 -> -707
      [] t = 3142 -> -1000

RECURSIVE SqrtSearch(_, _, _)
\* The largest r in lo..hi with r * r <= x.
SqrtSearch(x, lo, hi) ==
    IF lo >= hi THEN lo
    ELSE LET mid == (lo + hi + 1) \div 2
         IN  IF mid * mid <= x THEN SqrtSearch(x, mid, hi)
             ELSE SqrtSearch(x, lo, mid - 1)

\* Math.sqrt of x (in units of 1/Scale^2), rounded to the nearest 1/Scale.
MathSqrt(x) ==
    LET r == SqrtSearch(x, 0, 8 * Scale)
    IN  IF x - r * r > r THEN r + 1 ELSE r

RECURSIVE Pow10(_)
Pow10(k) == IF k = 0 THEN 1 ELSE 10 * Pow10(k - 1)

RECURSIVE Gcd(_, _)
Gcd(a, b) == IF b = 0 THEN a ELSE Gcd(b, a % b)

\* An exact quotient a / b of two numbers, in lowest terms.
Quot(a, b) ==
    LET g == Gcd(a, b)
    IN  IF a = 0 THEN [num |-> 0, den |-> 1]
        ELSE [num |-> a \div g, den |-> b \div g]

\* The product of a quotient and a whole number.
QuotTimes(q, k) == Quot(q.num * k, q.den)

(***************************************************************************)
(* Math.random(): a cyclic tape of outcomes.                               *)
(***************************************************************************)
Tapes == UNION {[1..n -> RandomValues] : n \in 1..TapeLen}

MathRandom(r) == r.tape[r.pos]

RandomAdvance(r) == [r EXCEPT !.pos = (r.pos % Len(r.tape)) + 1]

(***************************************************************************)
(* take(it, n): the number of elements it pulls from `it`.                 *)
(***************************************************************************)
\* A take whose loop runs once too often (i <= n).
takeOneMore(n) == n + 1

take(n) == n

(***************************************************************************)
(* createThetaStream: one turn of its loop draws the pair                  *)
(* [Math.random() * Math.PI, Math.random()] and yields the angle when the  *)
(* second is at most the sine of the first.                                *)
(***************************************************************************)
ThetaOf(x) == (x * MathPI) \div Scale

\* An acceptance test that is strict (u < sin(theta)).
AcceptsStrict(p) == p.u < MathSin(p.theta)

Accepts(p) == p.u <= MathSin(p.theta)

PointOf(r) == [theta |-> ThetaOf(MathRandom(r)),
               u     |-> MathRandom(RandomAdvance(r))]

(***************************************************************************)
(* calculateDistance and the reduce of createDistanceStream.               *)
(***************************************************************************)
calculateDistance(d, theta) ==
    MathSqrt(Scale * Scale + d * d - 2 * d * MathCos(theta))

\* A reducer that freezes only above the limit (p > radiusLimit).
ReduceStepAbove(p, c, radiusLimit) ==
    IF p > radiusLimit THEN p ELSE calculateDistance(p, c)

\* A reducer that never freezes.
ReduceStepAlways(p, c, radiusLimit) == calculateDistance(p, c)

ReduceStep(p, c, radiusLimit) ==
    IF p >= radiusLimit THEN p ELSE calculateDistance(p, c)

RECURSIVE ReduceTo(_, _, _)
\* The accumulator of thetaArray.reduce(..., 0) after its first k elements.
ReduceTo(thetas, radiusLimit, k) ==
    IF k = 0 THEN 0
    ELSE ReduceStep(ReduceTo(thetas, radiusLimit, k - 1), thetas[k], radiusLimit)

\* The angles of a taken array (each element also records its stream position).
ThetasOf(arr) == [k \in 1..Len(arr) |-> arr[k].theta]

\* The distance createDistanceStream yields for a taken array.
PathDistance(arr, radiusLimit) == ReduceTo(ThetasOf(arr), radiusLimit, Len(arr))

\* The array taken once, outside the loop, and used again by every turn.
HoistedThetaArray(old) == old

\* The array a turn of createDistanceStream's loop starts from.
NewThetaArray(old) == << >>

(***************************************************************************)
(* createRadiusStream(significantFigures).                                 *)
(***************************************************************************)
RadiusN(p) == Pow10(p - 1)

RadiusUnit(p) == Scale \div RadiusN(p)

RadiusFirst == 1

\* A loop bound that stops one radius short (i < steps * n).
RadiusHasNextExclusive(i, p) == i < steps * RadiusN(p)

RadiusHasNext(i, p) == i <= steps * RadiusN(p)

RadiusValue(i, p) == RadiusUnit(p) * i

(***************************************************************************)
(* The callback of results: the aggregation of one batch.                  *)
(***************************************************************************)
RECURSIVE SumTo(_, _)
SumTo(ds, k) == IF k = 0 THEN 0 ELSE SumTo(ds, k - 1) + ds[k]

\* A filter that counts only the distances above the radius.
EscapedAbove(d, r) == d > r

Escaped(d, r) == d >= r

escapedDistances(ds, r) == SelectSeq(ds, LAMBDA d : Escaped(d, r))

SimulationResults(r, ds) ==
    [radius          |-> r,
     averageDistance |-> Quot(SumTo(ds, Len(ds)), Len(ds)),
     percentEscaped  |-> QuotTimes(Quot(Len(escapedDistances(ds, r)), Len(ds)), 100)]

(***************************************************************************)
(* map: the generator body runs only between a next() call and its yield.  *)
(***************************************************************************)
\* A map that runs ahead of its consumer.
MapRunsAhead(calls, yielded) == TRUE

MapMayRun(calls, yielded) == calls > yielded

\* A spread taken to be complete as soon as it holds a result.
SpreadHasResult == mapPc \in {"suspended", "done"} /\ results # << >>

\* [...results] is complete when the iterator has reported done.
SpreadComplete == mapPc = "done"

(***************************************************************************)
(* Groups of variables.                                                    *)
(***************************************************************************)
configVars == <<significantFigures, sampleSize, stepCount>>
radiusVars == <<radiusI, radiusDone, radii>>
thetaVars  == <<rng, thetaCursor, drawn>>
pathVars   == <<thetaArray, pathPc, consumedUpTo, pathCount>>
batchVars  == <<radius, distances>>
mapVars    == <<mapPc, requested, results>>
writeVars  == <<pc, writeFileCalls, written, errorLog>>

(***************************************************************************)
(* Initial state: the module has been evaluated and writeResults(results)  *)
(* has reached the spread of results; no generator has run yet.            *)
(***************************************************************************)
InitWith(figures, tapes) ==
    /\ rng \in {[tape |-> t, pos |-> 1] : t \in tapes}
    /\ significantFigures \in figures
    /\ sampleSize = SampleSize
    /\ stepCount = pathSteps
    /\ radiusI = RadiusFirst
    /\ radiusDone = FALSE
    /\ radii = << >>
    /\ thetaCursor = 0
    /\ drawn = << >>
    /\ thetaArray = << >>
    /\ pathPc = "idle"
    /\ consumedUpTo = 0
    /\ pathCount = 0
    /\ radius = 0
    /\ distances = << >>
    /\ mapPc = "suspended"
    /\ requested = 0
    /\ results = << >>
    /\ pc = "spread"
    /\ writeFileCalls = 0
    /\ written = << >>
    /\ errorLog = 0

Init == InitWith(1..MaxSigFigs, Tapes)

(***************************************************************************)
(* The consumer, [...results] of writeResults, calls results.next().       *)
(***************************************************************************)
ResultsNext ==
    /\ pc = "spread"
    /\ mapPc = "suspended"
    /\ requested = Len(results)
    /\ requested' = requested + 1
    /\ UNCHANGED <<mapPc, results>>
    /\ UNCHANGED <<configVars, radiusVars, thetaVars, pathVars, batchVars, writeVars>>

(***************************************************************************)
(* map resumes: its for-of pulls the next radius from radiusStream and     *)
(* enters the callback, which creates a distance stream for that radius;   *)
(* or it finds radiusStream done and returns.                              *)
(***************************************************************************)
MapPull ==
    /\ pc = "spread"
    /\ mapPc = "suspended"
    /\ MapMayRun(requested, Len(results))
    /\ IF RadiusHasNext(radiusI, significantFigures)
       THEN /\ radius' = RadiusValue(radiusI, significantFigures)
            /\ radii' = Append(radii, RadiusValue(radiusI, significantFigures))
            /\ radiusI' = radiusI + 1
            /\ distances' = << >>
            /\ pathPc' = "idle"
            /\ mapPc' = "f"
            /\ UNCHANGED radiusDone
       ELSE /\ radiusDone' = TRUE
            /\ mapPc' = "done"
            /\ UNCHANGED <<radius, radii, radiusI, distances, pathPc>>
    /\ UNCHANGED <<thetaArray, consumedUpTo, pathCount, requested, results>>
    /\ UNCHANGED <<configVars, thetaVars, writeVars>>

(***************************************************************************)
(* take(createDistanceStream(5, thetaStram, radius), sampleSize) pulls the *)
(* next distance: a turn of createDistanceStream's loop begins.            *)
(***************************************************************************)
NextPath ==
    /\ pc = "spread"
    /\ mapPc = "f"
    /\ pathPc \in {"idle", "yielded"}
    /\ Len(distances) < take(sampleSize)
    /\ pathPc' = "take"
    /\ thetaArray' = NewThetaArray(thetaArray)
    /\ drawn' = << >>
    /\ UNCHANGED <<rng, thetaCursor, consumedUpTo, pathCount>>
    /\ UNCHANGED <<configVars, radiusVars, batchVars, mapVars, writeVars>>

(***************************************************************************)
(* take(thetaStream, steps) pulls thetaStram, which draws one pair.        *)
(***************************************************************************)
ThetaDraw ==
    /\ pc = "spread"
    /\ mapPc = "f"
    /\ pathPc = "take"
    /\ Len(thetaArray) < take(stepCount)
    /\ Len(drawn) < MaxDraws
    /\ LET p == PointOf(rng)
       IN  /\ drawn' = Append(drawn, p)
           /\ IF Accepts(p)
              THEN /\ thetaCursor' = thetaCursor + 1
                   /\ thetaArray' = Append(thetaArray,
                                           [pos |-> thetaCursor + 1, theta |-> p.theta])
              ELSE UNCHANGED <<thetaCursor, thetaArray>>
    /\ rng' = RandomAdvance(RandomAdvance(rng))
    /\ UNCHANGED <<pathPc, consumedUpTo, pathCount>>
    /\ UNCHANGED <<configVars, radiusVars, batchVars, mapVars, writeVars>>

(***************************************************************************)
(* createDistanceStream reduces the taken array and yields the distance.   *)
(***************************************************************************)
YieldDistance ==
    /\ pc = "spread"
    /\ mapPc = "f"
    /\ pathPc = "take"
    /\ Len(thetaArray) >= take(stepCount)
    /\ distances' = Append(distances, PathDistance(thetaArray, radius))
    /\ pathPc' = "yielded"
    /\ pathCount' = pathCount + 1
    /\ consumedUpTo' = IF thetaArray = << >> THEN consumedUpTo
                       ELSE thetaArray[Len(thetaArray)].pos
    /\ UNCHANGED <<thetaArray, radius>>
    /\ UNCHANGED <<configVars, radiusVars, thetaVars, mapVars, writeVars>>

(***************************************************************************)
(* The batch is full: the callback aggregates it and map yields the        *)
(* SimulationResults, which the spread appends to its array.               *)
(***************************************************************************)
YieldResult ==
    /\ pc = "spread"
    /\ mapPc = "f"
    /\ Len(distances) >= take(sampleSize)
    /\ results' = Append(results, SimulationResults(radius, distances))
    /\ mapPc' = "suspended"
    /\ UNCHANGED requested
    /\ UNCHANGED <<configVars, radiusVars, thetaVars, pathVars, batchVars, writeVars>>

(***************************************************************************)
(* writeResults: the spread is complete, writeFile is called with the data *)
(* and awaited.                                                            *)
(***************************************************************************)
WriteFile ==
    /\ pc = "spread"
    /\ SpreadComplete
    /\ writeFileCalls' = writeFileCalls + 1
    /\ written' = results
    /\ pc' = "await"
    /\ UNCHANGED errorLog
    /\ UNCHANGED <<configVars, radiusVars, thetaVars, pathVars, batchVars, mapVars>>

WriteFileResolves ==
    /\ pc = "await"
    /\ pc' = "done"
    /\ UNCHANGED <<writeFileCalls, written, errorLog>>
    /\ UNCHANGED <<configVars, radiusVars, thetaVars, pathVars, batchVars, mapVars>>

\* writeFile rejects: the promise of writeResults rejects and .catch logs it.
WriteFileRejects ==
    /\ pc = "await"
    /\ pc' = "rejected"
    /\ errorLog' = errorLog + 1
    /\ UNCHANGED <<writeFileCalls, written>>
    /\ UNCHANGED <<configVars, radiusVars, thetaVars, pathVars, batchVars, mapVars>>

\* An exception leaves [...results]: the async function rejects before it
\* reaches writeFile, and .catch logs it.
SweepThrows ==
    /\ pc = "spread"
    /\ ~SpreadComplete
    /\ pc' = "rejected"
    /\ errorLog' = errorLog + 1
    /\ UNCHANGED <<writeFileCalls, written>>
    /\ UNCHANGED <<configVars, radiusVars, thetaVars, pathVars, batchVars, mapVars>>

Next ==
    \/ ResultsNext
    \/ MapPull
    \/ NextPath
    \/ ThetaDraw
    \/ YieldDistance
    \/ YieldResult
    \/ WriteFile
    \/ WriteFileResolves
    \/ WriteFileRejects
    \/ SweepThrows

Spec == Init /\ [][Next]_vars

(***************************************************************************)
(* createRadiusStream iterated on its own: a consumer calls next() on      *)
(* createRadiusStream(p) until it is done.                                 *)
(***************************************************************************)
InitRadius == InitWith(1..MaxRadiusSigFigs, {<<0>>})

RadiusNext ==
    /\ ~radiusDone
    /\ IF RadiusHasNext(radiusI, significantFigures)
       THEN /\ radii' = Append(radii, RadiusValue(radiusI, significantFigures))
            /\ radiusI' = radiusI + 1
            /\ UNCHANGED radiusDone
       ELSE /\ radiusDone' = TRUE
            /\ UNCHANGED <<radii, radiusI>>
    /\ UNCHANGED <<configVars, thetaVars, pathVars, batchVars, mapVars, writeVars>>

SpecRadius == InitRadius /\ [][RadiusNext]_vars

(***************************************************************************)
(* createDistanceStream(steps, thetaStream, radiusLimit) on its own: one   *)
(* distance is pulled from it, for any step count up to 5, any radius of   *)
(* createRadiusStream(2) (0.1, 0.2, ..., 5.0) as radiusLimit, and a        *)
(* thetaStream that may yield any sequence of the angles.                  *)
(***************************************************************************)
PathRadii == {RadiusValue(i, 2) : i \in 1..(steps * RadiusN(2))}

InitPath ==
    /\ rng = [tape |-> <<0>>, pos |-> 1]
    /\ significantFigures = 1
    /\ sampleSize = 1
    /\ stepCount \in 0..pathSteps
    /\ radiusI = RadiusFirst
    /\ radiusDone = FALSE
    /\ radii = << >>
    /\ thetaCursor = 0
    /\ drawn = << >>
    /\ thetaArray = << >>
    /\ pathPc = "idle"
    /\ consumedUpTo = 0
    /\ pathCount = 0
    /\ radius \in PathRadii
    /\ distances = << >>
    /\ mapPc = "f"
    /\ requested = 1
    /\ results = << >>
    /\ pc = "spread"
    /\ writeFileCalls = 0
    /\ written = << >>
    /\ errorLog = 0

\* take(thetaStream, steps) pulls the given thetaStream, which yields an angle.
InjectedTheta ==
    /\ pathPc = "take"
    /\ Len(thetaArray) < take(stepCount)
    /\ \E x \in RandomValues :
          thetaArray' = Append(thetaArray,
                               [pos |-> thetaCursor + 1, theta |-> ThetaOf(x)])
    /\ thetaCursor' = thetaCursor + 1
    /\ UNCHANGED <<rng, drawn, pathPc, consumedUpTo, pathCount>>
    /\ UNCHANGED <<configVars, radiusVars, batchVars, mapVars, writeVars>>

NextOfPath ==
    \/ NextPath
    \/ InjectedTheta
    \/ YieldDistance

SpecPath == InitPath /\ [][NextOfPath]_vars

(***************************************************************************)
(* Properties.                                                             *)
(***************************************************************************)
\* The accumulator of the current path's reduce after its first k angles.
DistanceAfter(k) == ReduceTo(ThetasOf(thetaArray), radius, k)

\* The distance the current path yielded.
LastDistance == distances[Len(distances)]

\* A radiusLimit no distance reaches (the default, Infinity).
NoLimit == 100 * Scale

\* The current path's walk with no early exit.
FreeDistanceAfter(k) == ReduceTo(ThetasOf(thetaArray), NoLimit, k)

\* C1: in one path simulation, once the distance after a step k < steps
\* meets or exceeds radiusLimit, the distance after every later step and
\* the yielded distance equal the distance at step k.
C1_FrozenAfterEscape ==
    pathPc = "yielded" =>
        \A k \in 1..(stepCount - 1) :
            DistanceAfter(k) >= radius =>
                /\ \A j \in k..stepCount : DistanceAfter(j) = DistanceAfter(k)
                /\ LastDistance = DistanceAfter(k)

\* A path that met its limit before the last step, at a step whose next
\* angle would have moved it.
C1_Witness ==
    /\ pathPc = "yielded"
    /\ \E k \in 1..(stepCount - 1) :
          /\ DistanceAfter(k) >= radius
          /\ calculateDistance(DistanceAfter(k), thetaArray[k + 1].theta)
                # DistanceAfter(k)

\* C2: every path consumes exactly steps angles of the angle stream: after
\* m distances have been yielded the stream has emitted m * steps angles
\* (plus those already taken for a path under way), early exit or not.
C2_ExactlyStepsPerPath ==
    thetaCursor = pathCount * stepCount
                  + (IF pathPc = "take" THEN Len(thetaArray) ELSE 0)

\* A second path has been yielded, and it exited early.
C2_Witness ==
    /\ pathPc = "yielded"
    /\ pathCount >= 2
    /\ \E k \in 1..(stepCount - 1) : DistanceAfter(k) >= radius
    /\ thetaCursor = 2 * stepCount

\* C3: no emitted angle is used by two path simulations: the stream
\* positions of a path under way lie above every position used by the
\* paths before it (of this batch and of the earlier radii), and a path
\* uses each of its positions once.
C3_AnglesNotReused ==
    /\ \A k \in 1..Len(thetaArray) : thetaArray[k].pos <= thetaCursor
    /\ \A k \in 1..(Len(thetaArray) - 1) :
          thetaArray[k].pos < thetaArray[k + 1].pos
    /\ pathPc = "take" =>
          \A k \in 1..Len(thetaArray) : thetaArray[k].pos > consumedUpTo

\* The second path of the second radius has taken all its angles.
C3_Witness ==
    /\ pathPc = "take"
    /\ Len(results) = 1
    /\ Len(distances) = 1
    /\ Len(thetaArray) = stepCount
    /\ consumedUpTo = (sampleSize + 1) * stepCount

\* C4: with 5 steps and radius 5.0 no path is classified as escaped:
\* the result for radius 5 has percentEscaped 0.
C4_NoEscapeAtRadiusFive ==
    \A i \in 1..Len(results) :
        (stepCount = 5 /\ results[i].radius = 5 * Scale)
            => results[i].percentEscaped.num = 0

\* C5: the percentEscaped of a result is 100 x (number of distances of its
\* batch that are >= its radius) / (batch size), the batch holds exactly
\* sampleSize distances simulated with that radius as limit, and the
\* percentage lies in [0, 100].
C5_PercentEscaped ==
    /\ \A i \in 1..Len(results) :
          /\ results[i].percentEscaped.den > 0
          /\ results[i].percentEscaped.num >= 0
          /\ results[i].percentEscaped.num <= 100 * results[i].percentEscaped.den
    /\ (mapPc \in {"suspended", "done"} /\ results # << >>) =>
          LET res == results[Len(results)]
              count == Cardinality({k \in 1..Len(distances) :
                                        distances[k] >= res.radius})
          IN  /\ Len(distances) = sampleSize
              /\ res.radius = radius
              /\ LastDistance = PathDistance(thetaArray, res.radius)
              /\ res.percentEscaped.num * Len(distances)
                    = 100 * count * res.percentEscaped.den

\* A batch of which half escaped, one path ending exactly on the radius.
C5_Witness ==
    /\ mapPc = "suspended"
    /\ results # << >>
    /\ results[Len(results)].percentEscaped = [num |-> 50, den |-> 1]
    /\ \E k \in 1..Len(distances) : distances[k] = radius

\* C6: createRadiusStream(p) yields exactly i / 10^(p-1) for
\* i = 1 .. steps * 10^(p-1), ascending without gaps: the first radius is
\* one unit, the last is steps, and there are steps * 10^(p-1) of them.
C6_RadiusStream ==
    LET n == Pow10(significantFigures - 1)
    IN  /\ \A k \in 1..Len(radii) : radii[k] * n = k * Scale
        /\ \A k \in 1..(Len(radii) - 1) : radii[k] < radii[k + 1]
        /\ Len(radii) <= steps * n
        /\ radiusDone =>
              /\ Len(radii) = steps * n
              /\ radii[1] * n = Scale
              /\ radii[Len(radii)] = steps * Scale

\* createRadiusStream(3) has been iterated to its end.
C6_Witness ==
    /\ radiusDone
    /\ significantFigures = 3
    /\ Len(radii) = 500
    /\ radii[1] = 10

AcceptedThetas(pairs) ==
    LET kept == SelectSeq(pairs, LAMBDA p : p.u <= MathSin(p.theta))
    IN  [k \in 1..Len(kept) |-> kept[k].theta]

\* C8: the sampler emits a candidate angle exactly when its u is at most
\* sin(theta), in the order drawn, and every emitted angle is in [0, pi].
C8_RejectionSampling ==
    /\ ThetasOf(thetaArray) = AcceptedThetas(drawn)
    /\ \A k \in 1..Len(thetaArray) :
          thetaArray[k].theta >= 0 /\ thetaArray[k].theta <= MathPI

\* A path for which a candidate was rejected, another accepted with
\* u = sin(theta), and a later one accepted.
C8_Witness ==
    /\ Len(thetaArray) >= 2
    /\ \E k \in 1..Len(drawn) : drawn[k].u > MathSin(drawn[k].theta)
    /\ \E k \in 1..(Len(drawn) - 1) : drawn[k].u = MathSin(drawn[k].theta)

\* C9: writeFile is called at most once, and only with the results of
\* every radius; when the sweep fails midway it is never called, and the
\* failure is logged to the error stream.
C9_WriteOnceAfterSweep ==
    /\ writeFileCalls <= 1
    /\ writeFileCalls = 1 =>
          /\ radiusDone
          /\ written = results
          /\ Len(written) = steps * Pow10(significantFigures - 1)
    /\ writeFileCalls = 0 => written = << >>
    /\ pc = "rejected" => errorLog = 1
    /\ (pc = "rejected" /\ mapPc # "done") => writeFileCalls = 0

\* The sweep failed with three results collected and a batch under way.
C9_Witness ==
    /\ pc = "rejected"
    /\ mapPc = "f"
    /\ Len(results) = 3
    /\ writeFileCalls = 0
    /\ errorLog = 1

\* C10: the yielded distance of a path is >= its radius exactly when the
\* distance after some step 1..stepCount of that simulation was.
C10_EscapeIffReached ==
    pathPc = "yielded" =>
        (LastDistance >= radius
            <=> \E k \in 1..stepCount : DistanceAfter(k) >= radius)

\* A path that reached its radius and whose walk, had it gone on, would
\* have ended below it.
C10_Witness ==
    /\ pathPc = "yielded"
    /\ LastDistance >= radius
    /\ \E k \in 1..(stepCount - 1) : FreeDistanceAfter(k) >= radius
    /\ FreeDistanceAfter(stepCount) < radius

====
